---- MODULE Spec2Model ----
(***************************************************************************)
(* Model of ceph-api: the per-release command wrappers (firefly, hammer,   *)
(* infernalis ceph_command.py), run_ceph_command, and validator.py.        *)
(*                                                                         *)
(* A wrapper call validates its arguments, builds the command dict and     *)
(* hands it to run_ceph_command, which creates a rados.Rados handle,       *)
(* connects, submits json.dumps(cmd) with mon_command and interprets the   *)
(* (status, outbuf, outs) reply.                                           *)
(***************************************************************************)
EXTENDS Integers, Sequences, FiniteSets, TLC

VARIABLES
    py,        \* major version of the interpreter running the library (2 or 3)
    pc,        \* per caller: position of the call in progress
    gen,       \* per caller: release module the wrapper belongs to
    op,        \* per caller: wrapper method being called
    args,      \* per caller: parameter name -> Python value passed
    cmd,       \* per caller: the cmd dict built by the wrapper (insertion order)
    checked,   \* per caller: parameters a validator was evaluated on, in order
    conn,      \* per caller: state of the rados.Rados handle of this call
    connects,  \* per caller: cluster.connect() attempts in this call
    submits,   \* per caller: cluster.mon_command() submissions in this call
    sent,      \* per caller: what mon_command handed to the transport
    reply,     \* per caller: the (status, outbuf, outs) the transport answered
    raised,    \* per caller: the rados.Error the transport raised, if any
    outcome,   \* per caller: how the call ended (return value or exception)
    ncalls,    \* number of wrapper calls started so far
    open,      \* connected Rados handles on which shutdown() has not run
    garbage,   \* of those, handles whose call has already ended
    errlog,    \* (status, msg) pairs of every CephError raised so far
    vcall,     \* the (value, valid_type, valid_range) of direct validator calls
    vres,      \* the outcomes of the direct validator calls made, in order
    rados_config_file,  \* self.rados_config_file of the command-group object
    payload,   \* per caller: bulk data the caller wants sent with the command
    frame      \* per caller: the arguments run_ceph_command was entered with

vars == <<py, pc, gen, op, args, cmd, checked, conn, connects, submits, sent,
          reply, raised, outcome, ncalls, open, garbage, errlog, vcall, vres,
          rados_config_file, payload, frame>>

\* direct calls of validator.validator
vvars == <<vcall, vres>>

callVars == <<gen, op, args, payload>>

(***************************************************************************)
(* Bounds                                                                  *)
(***************************************************************************)
MaxCalls == 2

\* direct calls of validator made on one (value, valid_type, valid_range)
MaxValidations == 2

(***************************************************************************)
(* Python values.  Floats are held in tenths (0.5 is PyFloat(5)); an int n *)
(* compares with a float as 10 * n tenths.                                 *)
(***************************************************************************)
PyNone     == [t |-> "None",  i |-> 0, s |-> "", l |-> <<>>]
PyInt(n)   == [t |-> "int",   i |-> n, s |-> "", l |-> <<>>]
PyFloat(n) == [t |-> "float", i |-> n, s |-> "", l |-> <<>>]
PyStr(x)   == [t |-> "str",   i |-> 0, s |-> x,  l |-> <<>>]
PyList(xs) == [t |-> "list",  i |-> 0, s |-> "", l |-> xs]

IsNum(v) == v.t \in {"int", "float"}
Num(v)   == IF v.t = "int" THEN v.i * 10 ELSE v.i

\* isinstance(value, valid_type); "str" stands for six.string_types
IsInstance(v, ty) == v.t = ty

\* a uuid.UUID object
PyUUID(x) == [t |-> "UUID", i |-> 0, s |-> x, l |-> <<>>]

\* <value>.<attr> exists: of the values passed only a module has attributes
\* named like a class (uuid.UUID); str, int and UUID objects have not
HasAttr(v, attr) == v.t = "module"

\* Python 2 orders values of different types: None, then numbers, then the
\* other types by type name ("list" < "str").
TypeRank(v) ==
    CASE v.t = "None" -> 0
      [] IsNum(v)     -> 1
      [] v.t = "list" -> 2
      [] v.t = "str"  -> 3

\* a >= b: "T", "F", or "TypeError" (Python 3 refuses to order mixed types)
PyGE(a, b, pyv) ==
    CASE IsNum(a) /\ IsNum(b) -> IF Num(a) >= Num(b) THEN "T" ELSE "F"
      [] TypeRank(a) # TypeRank(b) ->
            IF pyv = 3 THEN "TypeError"
            ELSE IF TypeRank(a) >= TypeRank(b) THEN "T" ELSE "F"

\* a <= b
PyLE(a, b, pyv) == PyGE(b, a, pyv)

\* PyIn comparing with the first element only
PyInFirst(v, xs) == Len(xs) > 0 /\ xs[1] = v

\* value in valid_range (list membership by ==)
PyIn(v, xs) == \E k \in 1..Len(xs) : xs[k] = v

\* The characters of the strings that are iterated over (for s in <str>).
Chars(x) ==
    CASE x = ""      -> <<>>
      [] x = "add"   -> <<"a", "d", "d">>
      [] x = "stale" -> <<"s", "t", "a", "l", "e">>
      [] x = "pause" -> <<"p", "a", "u", "s", "e">>
      [] x = "typo"  -> <<"t", "y", "p", "o">>
      [] x = "enter" -> <<"e", "n", "t", "e", "r">>
      [] x = "dump"  -> <<"d", "u", "m", "p">>
      [] x = "all"   -> <<"a", "l", "l">>
      [] x = "r-1.x" -> <<"r", "-", "1", ".", "x">>
      [] x = "a/b"   -> <<"a", "/", "b">>
      [] x = "root"  -> <<"r", "o", "o", "t">>
      [] x = "a=b"   -> <<"a", "=", "b">>

\* The items a Python for loop visits; Items is only used on iterables.
Iterable(v) == v.t \in {"list", "str"}
Items(v)    == IF v.t = "list" THEN v.l ELSE Chars(v.s)

(***************************************************************************)
(* validator.py.  A check yields [e, why]: e is "ok" or the exception      *)
(* class raised, why names the check that failed.                          *)
(***************************************************************************)
Ok           == [e |-> "ok", why |-> ""]
Fail(e, why) == [e |-> e, why |-> why]

\* valid_range as passed: None, a list of values, or something else
RangeNone     == [t |-> "None",  e |-> <<>>]
RangeList(xs) == [t |-> "list",  e |-> xs]
RangeOther    == [t |-> "other", e |-> <<>>]

\* MinMax asserting the maximum before the minimum
MinMaxMaxFirst(value, e, pyv) ==
    LET ge == PyGE(value, e[1], pyv)
        le == PyLE(value, e[2], pyv)
    IN  IF le = "TypeError" THEN Fail("TypeError", "max")
        ELSE IF le = "F" THEN Fail("AssertionError", "max")
        ELSE IF ge = "TypeError" THEN Fail("TypeError", "min")
        ELSE IF ge = "F" THEN Fail("AssertionError", "min")
        ELSE Ok

\* MinMax with both bounds exclusive
MinMaxExclusive(value, e, pyv) ==
    LET ge == PyGE(value, e[1], pyv)
        le == PyLE(value, e[2], pyv)
    IN  IF ge = "TypeError" THEN Fail("TypeError", "min")
        ELSE IF ge = "F" \/ value = e[1] THEN Fail("AssertionError", "min")
        ELSE IF le = "TypeError" THEN Fail("TypeError", "max")
        ELSE IF le = "F" \/ value = e[2] THEN Fail("AssertionError", "max")
        ELSE Ok

\* assert value >= valid_range[0]; assert value <= valid_range[1]
MinMax(value, e, pyv) ==
    LET ge == PyGE(value, e[1], pyv)
        le == PyLE(value, e[2], pyv)
    IN  IF ge = "TypeError" THEN Fail("TypeError", "min")
        ELSE IF ge = "F" THEN Fail("AssertionError", "min")
        ELSE IF le = "TypeError" THEN Fail("TypeError", "max")
        ELSE IF le = "F" THEN Fail("AssertionError", "max")
        ELSE Ok

\* validator asserting the [min, max] length instead of raising ValueError
validatorLengthAsserted(value, valid_type, valid_range, pyv) ==
    IF ~IsInstance(value, valid_type) THEN Fail("AssertionError", "type")
    ELSE IF valid_range.t = "None" THEN Ok
    ELSE IF valid_range.t # "list" THEN Fail("AssertionError", "range-not-list")
    ELSE IF valid_type = "str"
         THEN IF PyIn(value, valid_range.e) THEN Ok
              ELSE Fail("AssertionError", "not-in-list")
    ELSE IF Len(valid_range.e) # 2 THEN Fail("AssertionError", "length")
    ELSE MinMax(value, valid_range.e, pyv)

validator(value, valid_type, valid_range, pyv) ==
    IF ~IsInstance(value, valid_type) THEN Fail("AssertionError", "type")
    ELSE IF valid_range.t = "None" THEN Ok
    ELSE IF valid_range.t # "list" THEN Fail("AssertionError", "range-not-list")
    ELSE IF valid_type = "str"
         THEN IF PyIn(value, valid_range.e) THEN Ok
              ELSE Fail("AssertionError", "not-in-list")
    ELSE IF Len(valid_range.e) # 2 THEN Fail("ValueError", "length")
    ELSE MinMax(value, valid_range.e, pyv)

(***************************************************************************)
(* The ceph_argparse validators used by the hammer wrappers.  The library  *)
(* is not part of the repository: each one follows the validator contract  *)
(* of the specification and rejects with ValidationError.                  *)
(***************************************************************************)
\* BoundedInt{min?, max?}: rng is <<>>, <<min>> or <<min, max>>
CephIntValid(v, rng) ==
    IF v.t # "int" THEN Fail("ValidationError", "type")
    ELSE IF Len(rng) >= 1 /\ Num(v) < Num(rng[1]) THEN Fail("ValidationError", "min")
    ELSE IF Len(rng) >= 2 /\ Num(v) > Num(rng[2]) THEN Fail("ValidationError", "max")
    ELSE Ok

\* BoundedFloat{min?, max?}
CephFloatValid(v, rng) ==
    IF ~IsNum(v) THEN Fail("ValidationError", "type")
    ELSE IF Len(rng) >= 1 /\ Num(v) < Num(rng[1]) THEN Fail("ValidationError", "min")
    ELSE IF Len(rng) >= 2 /\ Num(v) > Num(rng[2]) THEN Fail("ValidationError", "max")
    ELSE Ok

\* PatternString with no character class (goodchars="")
CephStringValid(v) ==
    IF v.t # "str" THEN Fail("ValidationError", "type") ELSE Ok

\* the characters of the class A-Za-z0-9-_.
GoodChars ==
    {"a", "b", "c", "d", "e", "f", "g", "h", "i", "j", "k", "l", "m", "n",
     "o", "p", "q", "r", "s", "t", "u", "v", "w", "x", "y", "z",
     "A", "B", "C", "D", "E", "F", "G", "H", "I", "J", "K", "L", "M", "N",
     "O", "P", "Q", "R", "S", "T", "U", "V", "W", "X", "Y", "Z",
     "0", "1", "2", "3", "4", "5", "6", "7", "8", "9", "-", "_", "."}

\* PatternString with a character class: every character must be in it
CephStringCharsValid(v, good) ==
    IF v.t # "str" THEN Fail("ValidationError", "type")
    ELSE IF \E k \in 1..Len(Chars(v.s)) : Chars(v.s)[k] \notin good
         THEN Fail("ValidationError", "badchars")
    ELSE Ok

\* the canonical 8-4-4-4-12 hexadecimal form
IsUUID(x) == x \in {"123e4567-e89b-12d3-a456-426614174000"}

\* CompoundUUID
CephUUIDValid(v) ==
    IF v.t = "str" /\ IsUUID(v.s) THEN Ok ELSE Fail("ValidationError", "format")

\* ChoiceSet membership of one literal
CephChoicesValid(x, strs) ==
    IF PyIn(PyStr(x), strs) THEN Ok ELSE Fail("ValidationError", "not-in-list")

\* ipv4[:port] / [ipv6][:port]
IsIPAddr(x) == x \in {"10.0.0.1", "10.0.0.1:6789"}

CephIPAddrValid(v) ==
    IF v.t = "str" /\ IsIPAddr(v.s) THEN Ok ELSE Fail("ValidationError", "format")

\* an address optionally followed by /nonce-digits
IsEntityAddr(x) == IsIPAddr(x) \/ x \in {"10.0.0.1:6789/5"}

CephEntityAddrValid(v) ==
    IF v.t = "str" /\ IsEntityAddr(v.s) THEN Ok ELSE Fail("ValidationError", "format")

\* osd.<id> or a bare id
IsOsdName(x) == x \in {"osd.0", "0"}

CephOsdNameValid(v) ==
    IF v.t = "str" /\ IsOsdName(v.s) THEN Ok ELSE Fail("ValidationError", "format")

(***************************************************************************)
(* The checks a wrapper applies to one argument.                           *)
(***************************************************************************)
NoCheck                 == [k |-> "none",           ty |-> "", rng |-> <<>>]
AssertIsInstance(ty)    == [k |-> "assert",         ty |-> ty, rng |-> <<>>]
RaiseUnlessInstance(ty) == [k |-> "raise",          ty |-> ty, rng |-> <<>>]
CephValidator(ty, rng)  == [k |-> "validator",      ty |-> ty, rng |-> rng]
CephInt(rng)            == [k |-> "CephInt",        ty |-> "", rng |-> rng]
CephFloat(rng)          == [k |-> "CephFloat",      ty |-> "", rng |-> rng]
CephString              == [k |-> "CephString",     ty |-> "", rng |-> <<>>]
CephChoicesEach(rng)    == [k |-> "CephChoices",    ty |-> "", rng |-> rng]
CephIPAddr              == [k |-> "CephIPAddr",     ty |-> "", rng |-> <<>>]
CephEntityAddr          == [k |-> "CephEntityAddr", ty |-> "", rng |-> <<>>]
CephOsdName             == [k |-> "CephOsdName",    ty |-> "", rng |-> <<>>]
CephStringChars         == [k |-> "CephStringChars", ty |-> "", rng |-> <<>>]
CephUUID                == [k |-> "CephUUID",       ty |-> "", rng |-> <<>>]
\* CephString(goodchars="A-Za-z0-9-_.=")
CephStringCharsEq       == [k |-> "CephStringCharsEq", ty |-> "", rng |-> <<>>]
\* assert isinstance(<p>, <p>.<attr>): the class is looked up on the argument
AssertIsInstanceOfOwnAttr(attr) ==
                           [k |-> "assert-attr",    ty |-> attr, rng |-> <<>>]

Strs(xs) == [k \in 1..Len(xs) |-> PyStr(xs[k])]

\* for s in value: <name>_validator.valid(s)
RECURSIVE ForEachValid(_, _, _)
ForEachValid(items, k, strs) ==
    IF k > Len(items) THEN Ok
    ELSE LET r == CephChoicesValid(items[k], strs)
         IN  IF r.e # "ok" THEN r ELSE ForEachValid(items, k + 1, strs)

Check(chk, v, pyv) ==
    CASE chk.k = "none"      -> Ok
      [] chk.k = "assert"    -> IF IsInstance(v, chk.ty) THEN Ok
                                ELSE Fail("AssertionError", "type")
      [] chk.k = "raise"     -> IF IsInstance(v, chk.ty) THEN Ok
                                ELSE Fail("TypeError", "type")
      [] chk.k = "validator" -> validator(v, chk.ty, RangeList(chk.rng), pyv)
      [] chk.k = "CephInt"   -> CephIntValid(v, chk.rng)
      [] chk.k = "CephFloat" -> CephFloatValid(v, chk.rng)
      [] chk.k = "CephString" -> CephStringValid(v)
      [] chk.k = "CephChoices" ->
            IF ~Iterable(v) THEN Fail("TypeError", "not-iterable")
            ELSE ForEachValid(Items(v), 1, chk.rng)
      [] chk.k = "CephIPAddr"     -> CephIPAddrValid(v)
      [] chk.k = "CephEntityAddr" -> CephEntityAddrValid(v)
      [] chk.k = "CephOsdName"    -> CephOsdNameValid(v)
      [] chk.k = "CephStringChars" -> CephStringCharsValid(v, GoodChars)
      [] chk.k = "CephUUID"       -> CephUUIDValid(v)
      [] chk.k = "CephStringCharsEq" ->
            CephStringCharsValid(v, GoodChars \cup {"="})
      [] chk.k = "assert-attr"    ->
            IF ~HasAttr(v, chk.ty) THEN Fail("AttributeError", "attribute")
            ELSE Fail("AssertionError", "type")

\* the exception classes a failed validation surfaces as
ValidationKinds ==
    {"AssertionError", "TypeError", "ValueError", "ValidationError",
     "AttributeError"}

(***************************************************************************)
(* The wrappers.  A wrapper is                                             *)
(*   req  - the checks made before the cmd dict is created, in code order, *)
(*   keys - the keys of the dict literal after 'prefix', in order,         *)
(*   opt  - the "if <p> is not None:" blocks, in code order: each checks   *)
(*          <p> and then stores cmd['<p>'] = <p>.                          *)
(***************************************************************************)
F(p, chk) == [p |-> p, chk |-> chk]

W(prefix, req, keys, opt) ==
    [prefix |-> prefix, req |-> req, keys |-> keys, opt |-> opt]

Gens == {"firefly", "hammer", "infernalis"}

StuckOpsFirefly == Strs(<<"inactive", "unclean", "stale">>)
StuckOps        == Strs(<<"inactive", "unclean", "stale", "undersized", "degraded">>)
PgStates ==
    Strs(<<"active", "clean", "down", "replay", "splitting", "scrubbing",
           "scrubq", "degraded", "inconsistent", "peering", "repair",
           "recovering", "backfill_wait", "incomplete", "stale", "remapped",
           "deep_scrub", "backfill", "backfill_toofull", "recovery_wait",
           "undersized">>)

osd_reweight(g) ==
    CASE g = "firefly" ->
            W("osd reweight",
              <<F("id", AssertIsInstance("str")),
                F("weight", AssertIsInstance("str"))>>,
              <<"id", "weight">>, <<>>)
      [] g = "hammer" ->
            W("osd reweight",
              <<F("id", CephInt(<<PyInt(0)>>)),
                F("weight", CephFloat(<<PyInt(0), PyInt(1)>>))>>,
              <<"id", "weight">>, <<>>)
      [] g = "infernalis" ->
            W("osd reweight",
              <<F("weight", AssertIsInstance("float")),
                F("id", AssertIsInstance("int"))>>,
              <<"weight", "id">>, <<>>)

mon_add(g) ==
    CASE g = "firefly" ->
            W("mon add", <<F("name", AssertIsInstance("str"))>>,
              <<"addr", "name">>, <<>>)
      [] g = "hammer" ->
            W("mon add",
              <<F("addr", CephIPAddr), F("name", CephString)>>,
              <<"addr", "name">>, <<>>)
      [] g = "infernalis" ->
            W("mon add", <<F("name", AssertIsInstance("str"))>>,
              <<"name", "addr">>, <<>>)

osd_blacklist(g) ==
    CASE g = "firefly" ->
            W("osd blacklist",
              <<F("blacklistop", CephValidator("list", Strs(<<"add", "rm">>)))>>,
              <<"blacklistop", "addr">>,
              <<F("expire", AssertIsInstance("str"))>>)
      [] g = "hammer" ->
            W("osd blacklist",
              <<F("addr", CephEntityAddr),
                F("blacklistop", CephChoicesEach(Strs(<<"add", "rm">>)))>>,
              <<"addr", "blacklistop">>,
              <<F("expire", CephFloat(<<PyInt(0)>>))>>)
      [] g = "infernalis" ->
            W("osd blacklist",
              <<F("blacklistop", CephValidator("list", Strs(<<"add", "rm">>)))>>,
              <<"blacklistop", "addr">>,
              <<F("expire", AssertIsInstance("float"))>>)

config_key_put(g) ==
    CASE g = "hammer" ->
            W("config-key put", <<F("key", CephString)>>, <<"key">>,
              <<F("val", CephString)>>)
      [] g \in {"firefly", "infernalis"} ->
            W("config-key put", <<F("key", AssertIsInstance("str"))>>, <<"key">>,
              <<F("val", AssertIsInstance("str"))>>)

pg_dump_stuck(g) ==
    CASE g = "firefly" ->
            W("pg dump_stuck", <<>>, <<>>,
              <<F("threshold", AssertIsInstance("str")),
                F("stuckops", CephValidator("list", StuckOpsFirefly))>>)
      [] g = "hammer" ->
            W("pg dump_stuck", <<>>, <<>>,
              <<F("stuckops", CephChoicesEach(StuckOps)),
                F("threshold", CephInt(<<>>))>>)
      [] g = "infernalis" ->
            W("pg dump_stuck", <<>>, <<>>,
              <<F("threshold", AssertIsInstance("int")),
                F("stuckops", CephValidator("list", StuckOps))>>)

\* hammer and infernalis only
pg_ls_by_primary(g) ==
    CASE g = "hammer" ->
            W("pg ls-by-primary", <<F("osd", CephOsdName)>>, <<"osd">>,
              <<F("states", CephChoicesEach(PgStates)),
                F("pool", CephInt(<<>>))>>)
      [] g = "infernalis" ->
            W("pg ls-by-primary", <<F("osd", AssertIsInstance("str"))>>, <<"osd">>,
              <<F("states", CephValidator("list", PgStates)),
                F("pool", AssertIsInstance("int"))>>)

PoolTypes == Strs(<<"replicated", "erasure">>)

osd_pool_create(g) ==
    CASE g = "firefly" ->
            W("osd pool create",
              <<F("pg_num", AssertIsInstance("str")),
                F("pool", AssertIsInstance("str"))>>,
              <<"pg_num", "pool">>,
              <<F("ruleset", AssertIsInstance("str")),
                F("pool_type", CephValidator("list", PoolTypes)),
                F("pgp_num", AssertIsInstance("str")),
                F("erasure_code_profile", AssertIsInstance("str"))>>)
      [] g = "hammer" ->
            W("osd pool create",
              <<F("pool", RaiseUnlessInstance("str")),
                F("pg_num", CephInt(<<PyInt(0)>>))>>,
              <<"pool", "pg_num">>,
              <<F("ruleset", CephString),
                F("erasure_code_profile", CephString),
                F("pgp_num", CephInt(<<PyInt(0)>>)),
                F("pool_type", CephChoicesEach(PoolTypes)),
                F("expected_num_objects", CephInt(<<>>))>>)
      [] g = "infernalis" ->
            W("osd pool create",
              <<F("pg_num", AssertIsInstance("int")),
                F("pool", AssertIsInstance("str"))>>,
              <<"pg_num", "pool">>,
              <<F("pool_type", CephValidator("list", PoolTypes)),
                F("pgp_num", AssertIsInstance("int")),
                F("expected_num_objects", AssertIsInstance("int")),
                F("ruleset", AssertIsInstance("str")),
                F("erasure_code_profile", AssertIsInstance("str"))>>)

OsdFlagsFirefly ==
    Strs(<<"pause", "noup", "nodown", "noout", "noin", "nobackfill",
           "norecover", "noscrub", "nodeep-scrub", "notieragent">>)
OsdFlagsHammer ==
    Strs(<<"full", "pause", "noup", "nodown", "noout", "noin", "nobackfill",
           "norebalance", "norecover", "noscrub", "nodeep-scrub",
           "notieragent">>)
OsdFlagsInfernalis == OsdFlagsHammer \o Strs(<<"sortbitwise">>)

osd_set(g) ==
    CASE g = "firefly" ->
            W("osd set", <<F("key", CephValidator("list", OsdFlagsFirefly))>>,
              <<"key">>, <<>>)
      [] g = "hammer" ->
            W("osd set", <<F("key", CephChoicesEach(OsdFlagsHammer))>>,
              <<"key">>, <<>>)
      [] g = "infernalis" ->
            W("osd set", <<F("key", CephValidator("list", OsdFlagsInfernalis))>>,
              <<"key">>, <<>>)

QuorumCmds == Strs(<<"enter", "exit">>)

quorum(g) ==
    CASE g = "hammer" ->
            W("quorum", <<F("quorumcmd", CephChoicesEach(QuorumCmds))>>,
              <<"quorumcmd">>, <<>>)
      [] g \in {"firefly", "infernalis"} ->
            W("quorum", <<F("quorumcmd", CephValidator("list", QuorumCmds))>>,
              <<"quorumcmd">>, <<>>)

HeapCmds ==
    Strs(<<"dump", "start_profiler", "stop_profiler", "release", "stats">>)

heap(g) ==
    CASE g = "hammer" ->
            W("heap", <<F("heapcmd", CephChoicesEach(HeapCmds))>>,
              <<"heapcmd">>, <<>>)
      [] g \in {"firefly", "infernalis"} ->
            W("heap", <<F("heapcmd", CephValidator("list", HeapCmds))>>,
              <<"heapcmd">>, <<>>)

DumpContents ==
    Strs(<<"all", "summary", "sum", "delta", "pools", "osds", "pgs",
           "pgs_brief">>)

pg_dump(g) ==
    CASE g = "hammer" ->
            W("pg dump", <<>>, <<>>,
              <<F("dumpcontents", CephChoicesEach(DumpContents))>>)
      [] g \in {"firefly", "infernalis"} ->
            W("pg dump", <<>>, <<>>,
              <<F("dumpcontents", CephValidator("list", DumpContents))>>)

mds_rmfailed(g) ==
    CASE g = "firefly" ->
            W("mds rmfailed", <<F("who", AssertIsInstance("str"))>>,
              <<"who">>, <<>>)
      [] g = "hammer" ->
            W("mds rmfailed", <<F("who", CephInt(<<PyInt(0)>>))>>,
              <<"who">>, <<>>)
      [] g = "infernalis" ->
            W("mds rmfailed", <<F("who", AssertIsInstance("int"))>>,
              <<"who">>, <<>>)

mds_set_max_mds(g) ==
    CASE g = "firefly" ->
            W("mds set_max_mds", <<F("maxmds", AssertIsInstance("str"))>>,
              <<"maxmds">>, <<>>)
      [] g = "hammer" ->
            W("mds set_max_mds", <<F("maxmds", CephInt(<<PyInt(0)>>))>>,
              <<"maxmds">>, <<>>)
      [] g = "infernalis" ->
            W("mds set_max_mds", <<F("maxmds", AssertIsInstance("int"))>>,
              <<"maxmds">>, <<>>)

osd_thrash(g) ==
    CASE g = "firefly" ->
            W("osd thrash", <<F("num_epochs", AssertIsInstance("str"))>>,
              <<"num_epochs">>, <<>>)
      [] g = "hammer" ->
            W("osd thrash", <<F("num_epochs", CephInt(<<PyInt(0)>>))>>,
              <<"num_epochs">>, <<>>)
      [] g = "infernalis" ->
            W("osd thrash", <<F("num_epochs", AssertIsInstance("int"))>>,
              <<"num_epochs">>, <<>>)

mds_set_state(g) ==
    CASE g = "firefly" ->
            W("mds set_state",
              <<F("gid", AssertIsInstance("str")),
                F("state", AssertIsInstance("str"))>>,
              <<"gid", "state">>, <<>>)
      [] g = "hammer" ->
            W("mds set_state",
              <<F("state", CephInt(<<PyInt(0), PyInt(20)>>)),
                F("gid", CephInt(<<PyInt(0)>>))>>,
              <<"state", "gid">>, <<>>)
      [] g = "infernalis" ->
            W("mds set_state",
              <<F("state", AssertIsInstance("int")),
                F("gid", AssertIsInstance("int"))>>,
              <<"state", "gid">>, <<>>)

osd_crush_add_bucket(g) ==
    CASE g = "hammer" ->
            W("osd crush add-bucket",
              <<F("type", CephString), F("name", CephStringChars)>>,
              <<"type", "name">>, <<>>)
      [] g \in {"firefly", "infernalis"} ->
            W("osd crush add-bucket",
              <<F("name", AssertIsInstance("str")),
                F("type", AssertIsInstance("str"))>>,
              <<"name", "type">>, <<>>)

osd_create(g) ==
    CASE g = "firefly" ->
            W("osd create", <<>>, <<>>,
              <<F("uuid", AssertIsInstanceOfOwnAttr("UUID"))>>)
      [] g = "hammer" ->
            W("osd create", <<>>, <<>>, <<F("uuid", CephUUID)>>)
      [] g = "infernalis" ->
            W("osd create", <<>>, <<>>,
              <<F("uuid", AssertIsInstanceOfOwnAttr("UUID")),
                F("id", AssertIsInstance("int"))>>)

\* in firefly and infernalis the class body defines osd_crush_set twice and
\* the second definition (with arguments) replaces the first
osd_crush_set(g) ==
    CASE g = "firefly" ->
            W("osd crush set",
              <<F("args", AssertIsInstance("str")),
                F("id", AssertIsInstance("str")),
                F("weight", AssertIsInstance("str"))>>,
              <<"args", "id", "weight">>, <<>>)
      [] g = "hammer" -> W("osd crush set", <<>>, <<>>, <<>>)
      [] g = "infernalis" ->
            W("osd crush set",
              <<F("args", AssertIsInstance("str")),
                F("id", AssertIsInstance("str")),
                F("weight", AssertIsInstance("float"))>>,
              <<"args", "id", "weight">>, <<>>)

\* hammer only
osd_crush_set_2(g) ==
    W("osd crush set",
      <<F("args", CephStringCharsEq),
        F("weight", CephFloat(<<PyInt(0)>>)),
        F("id", CephOsdName)>>,
      <<"args", "weight", "id">>, <<>>)

auth_import(g) == W("auth import", <<>>, <<>>, <<>>)

osd_setcrushmap(g) == W("osd setcrushmap", <<>>, <<>>, <<>>)

\* the wrapper methods modelled, per release
OpsOf(g) ==
    {"osd_reweight", "mon_add", "osd_blacklist", "config_key_put",
     "pg_dump_stuck", "osd_pool_create", "osd_set", "quorum", "heap",
     "pg_dump", "mds_rmfailed", "mds_set_max_mds", "osd_thrash",
     "mds_set_state", "osd_crush_add_bucket", "osd_create", "auth_import",
     "osd_setcrushmap", "osd_crush_set"}
    \cup (IF g = "firefly" THEN {} ELSE {"pg_ls_by_primary"})
    \cup (IF g = "hammer" THEN {"osd_crush_set_2"} ELSE {})

WrapperOf(g, o) ==
    CASE o = "osd_reweight"     -> osd_reweight(g)
      [] o = "mon_add"          -> mon_add(g)
      [] o = "osd_blacklist"    -> osd_blacklist(g)
      [] o = "config_key_put"   -> config_key_put(g)
      [] o = "pg_dump_stuck"    -> pg_dump_stuck(g)
      [] o = "pg_ls_by_primary" -> pg_ls_by_primary(g)
      [] o = "osd_pool_create"  -> osd_pool_create(g)
      [] o = "osd_set"          -> osd_set(g)
      [] o = "quorum"           -> quorum(g)
      [] o = "heap"             -> heap(g)
      [] o = "pg_dump"          -> pg_dump(g)
      [] o = "mds_rmfailed"     -> mds_rmfailed(g)
      [] o = "mds_set_max_mds"  -> mds_set_max_mds(g)
      [] o = "osd_thrash"       -> osd_thrash(g)
      [] o = "mds_set_state"    -> mds_set_state(g)
      [] o = "osd_crush_add_bucket" -> osd_crush_add_bucket(g)
      [] o = "osd_create"       -> osd_create(g)
      [] o = "auth_import"      -> auth_import(g)
      [] o = "osd_setcrushmap"  -> osd_setcrushmap(g)
      [] o = "osd_crush_set"    -> osd_crush_set(g)
      [] o = "osd_crush_set_2"  -> osd_crush_set_2(g)

\* the parameters after self in the def line, in order
Signature(g, o) ==
    CASE o = "osd_reweight" ->
            IF g = "infernalis" THEN <<"weight", "id">> ELSE <<"id", "weight">>
      [] o = "mon_add" ->
            IF g = "infernalis" THEN <<"name", "addr">> ELSE <<"addr", "name">>
      [] o = "osd_blacklist" ->
            IF g = "hammer" THEN <<"addr", "blacklistop", "expire">>
            ELSE <<"blacklistop", "addr", "expire">>
      [] o = "config_key_put" -> <<"key", "val">>
      [] o = "pg_dump_stuck" ->
            IF g = "hammer" THEN <<"stuckops", "threshold">>
            ELSE <<"threshold", "stuckops">>
      [] o = "pg_ls_by_primary" -> <<"osd", "states", "pool">>
      [] o = "osd_pool_create" ->
            IF g = "firefly"
            THEN <<"pg_num", "pool", "ruleset", "pool_type", "pgp_num",
                   "erasure_code_profile">>
            ELSE IF g = "hammer"
            THEN <<"pool", "pg_num", "ruleset", "erasure_code_profile",
                   "pgp_num", "pool_type", "expected_num_objects">>
            ELSE <<"pg_num", "pool", "pool_type", "pgp_num",
                   "expected_num_objects", "ruleset", "erasure_code_profile">>
      [] o = "osd_set"         -> <<"key">>
      [] o = "quorum"          -> <<"quorumcmd">>
      [] o = "heap"            -> <<"heapcmd">>
      [] o = "pg_dump"         -> <<"dumpcontents">>
      [] o = "mds_rmfailed"    -> <<"who">>
      [] o = "mds_set_max_mds" -> <<"maxmds">>
      [] o = "osd_thrash"      -> <<"num_epochs">>
      [] o = "mds_set_state" ->
            IF g = "firefly" THEN <<"gid", "state">> ELSE <<"state", "gid">>
      [] o = "osd_crush_add_bucket" ->
            IF g = "hammer" THEN <<"type", "name">> ELSE <<"name", "type">>
      [] o = "osd_create" ->
            IF g = "infernalis" THEN <<"uuid", "id">> ELSE <<"uuid">>
      [] o = "auth_import"     -> <<>>
      [] o = "osd_setcrushmap" -> <<>>
      [] o = "osd_crush_set" ->
            IF g = "hammer" THEN <<>> ELSE <<"args", "id", "weight">>
      [] o = "osd_crush_set_2" -> <<"args", "weight", "id">>

Names(fs)  == [k \in 1..Len(fs) |-> fs[k].p]
Range(xs)  == {xs[k] : k \in 1..Len(xs)}
ReqKeys(w) == Range(w.keys)
OptKeys(w) == Range(Names(w.opt))
Params(w)  == ReqKeys(w) \cup OptKeys(w)

(***************************************************************************)
(* The values a caller passes for a parameter: well-formed ones, values of *)
(* the wrong type or out of range, and None for a parameter left out.      *)
(***************************************************************************)
ArgValues(p) ==
    CASE p = "id"          -> {PyInt(5), PyInt(-1), PyStr("5")}
      [] p = "weight"      -> {PyFloat(5), PyFloat(15), PyFloat(-5), PyInt(1),
                               PyStr("0.5")}
      [] p = "addr"        -> {PyStr("10.0.0.1:6789"), PyStr("bogus"), PyInt(5)}
      [] p = "name"        -> {PyStr("a"), PyInt(5)}
      [] p = "blacklistop" -> {PyList(<<"add">>), PyList(<<"typo">>), PyStr("add")}
      [] p = "expire"      -> {PyFloat(5), PyFloat(-5), PyStr("0.5")}
      [] p = "key"         -> {PyStr("a"), PyInt(5)}
      [] p = "val"         -> {PyStr("a"), PyStr(""), PyInt(5)}
      [] p = "threshold"   -> {PyInt(5), PyStr("5")}
      [] p = "stuckops"    -> {PyList(<<"stale">>), PyList(<<"stale", "typo">>),
                               PyList(<<"stale", "unclean">>), PyList(<<>>),
                               PyStr("stale")}
      [] p = "osd"         -> {PyStr("osd.0"), PyStr("bogus")}
      [] p = "states"      -> {PyList(<<"clean", "active">>), PyList(<<>>)}
      [] p = "pool"        -> {PyStr("a"), PyInt(5)}
      [] p = "pg_num"      -> {PyInt(5), PyInt(-1), PyStr("5")}
      [] p = "pgp_num"     -> {PyInt(5), PyInt(-1)}
      [] p = "ruleset"     -> {PyStr("a")}
      [] p = "erasure_code_profile" -> {PyStr("a")}
      [] p = "pool_type"   -> {PyList(<<"erasure">>)}
      [] p = "expected_num_objects" -> {PyInt(0)}
      [] p = "quorumcmd"   -> {PyList(<<"enter">>), PyStr("enter"), PyList(<<>>),
                               PyStr(""), PyList(<<"enter", "exit">>),
                               PyList(<<"typo">>)}
      [] p = "heapcmd"     -> {PyList(<<"dump">>), PyStr("dump"), PyList(<<>>),
                               PyList(<<"dump", "stats">>)}
      [] p = "dumpcontents" -> {PyList(<<"all">>), PyList(<<"all", "pgs">>),
                                PyList(<<>>), PyList(<<"all", "typo">>),
                                PyStr("all")}
      [] p = "who"         -> {PyInt(0), PyInt(5), PyInt(-1), PyStr("5")}
      [] p = "maxmds"      -> {PyInt(0), PyInt(5), PyInt(-1), PyStr("5")}
      [] p = "num_epochs"  -> {PyInt(0), PyInt(5), PyInt(-1), PyStr("5")}
      [] p = "state"       -> {PyInt(3), PyInt(21), PyInt(-1), PyStr("x")}
      [] p = "gid"         -> {PyInt(5), PyInt(-1), PyStr("x")}
      [] p = "type"        -> {PyStr("root"), PyInt(5)}
      [] p = "uuid"        -> {PyStr("123e4567-e89b-12d3-a456-426614174000"),
                               PyUUID("123e4567-e89b-12d3-a456-426614174000"),
                               PyStr("bogus")}

\* parameters whose name is shared by wrappers taking different values
OpArgValues(w, p) ==
    CASE w.prefix = "osd set" /\ p = "key" ->
            {PyList(<<"pause">>), PyStr("pause"), PyList(<<"typo">>),
             PyStr("typo"), PyList(<<>>), PyStr(""),
             PyList(<<"pause", "noup">>)}
      [] w.prefix = "osd crush add-bucket" /\ p = "name" ->
            {PyStr("r-1.x"), PyStr("a/b"), PyInt(5)}
      [] w.prefix = "osd crush set" /\ p = "args" ->
            {PyStr("a=b"), PyInt(5)}
      [] w.prefix = "osd crush set" /\ p = "id" ->
            {PyStr("osd.0"), PyInt(5)}
      [] w.prefix = "osd crush set" /\ p = "weight" ->
            {PyFloat(5), PyStr("0.5")}
      [] OTHER -> ArgValues(p)

ArgDomain(w, p) ==
    OpArgValues(w, p) \cup (IF p \in OptKeys(w) THEN {PyNone} ELSE {})

ParamSeq(w) == w.keys \o Names(w.opt)

RECURSIVE ArgFns(_, _, _)
ArgFns(w, ps, k) ==
    IF k = 0 THEN {<<>>}
    ELSE {(ps[k] :> v) @@ f : v \in ArgDomain(w, ps[k]), f \in ArgFns(w, ps, k - 1)}

\* every way of calling the wrapper: one value per parameter
ArgSets(w) == ArgFns(w, ParamSeq(w), Len(ParamSeq(w)))

(***************************************************************************)
(* Running a wrapper body: validation and construction of cmd.             *)
(***************************************************************************)
Entry(k, v) == [k |-> k, v |-> v]

\* Dict with the optional parameters written into the dict literal as well
DictWithOptionals(w, a) ==
    <<Entry("prefix", PyStr(w.prefix))>> \o
    [k \in 1..Len(ParamSeq(w)) |-> Entry(ParamSeq(w)[k], a[ParamSeq(w)[k]])]

\* cmd = {'prefix': ..., '<key>': <key>, ...}
Dict(w, a) ==
    <<Entry("prefix", PyStr(w.prefix))>> \o
    [k \in 1..Len(w.keys) |-> Entry(w.keys[k], a[w.keys[k]])]

\* if <p> is not None:
Supplied(v) == v # PyNone

\* OptPut storing str(<p>) instead of <p>
OptPutAsString(c, p, v) ==
    Append(c, Entry(p, IF v.t = "str" THEN v ELSE PyStr("<repr>")))

\* cmd['<p>'] = <p>
OptPut(c, p, v) == Append(c, Entry(p, v))

Evaluated(chkd, f) == IF f.chk.k = "none" THEN chkd ELSE Append(chkd, f.p)

RECURSIVE RunOpt(_, _, _, _, _, _)
RunOpt(w, a, pyv, k, c, chkd) ==
    IF k > Len(w.opt)
    THEN [err |-> Ok, field |-> "", cmd |-> c, checked |-> chkd]
    ELSE LET f == w.opt[k]
         IN  IF ~Supplied(a[f.p]) THEN RunOpt(w, a, pyv, k + 1, c, chkd)
             ELSE LET r == Check(f.chk, a[f.p], pyv)
                  IN  IF r.e # "ok"
                      THEN [err |-> r, field |-> f.p, cmd |-> c,
                            checked |-> Evaluated(chkd, f)]
                      ELSE RunOpt(w, a, pyv, k + 1, OptPut(c, f.p, a[f.p]),
                                  Evaluated(chkd, f))

\* RunReq evaluating every required check and reporting the last failure
RECURSIVE RunReqReportLast(_, _, _, _, _)
RunReqReportLast(w, a, pyv, k, chkd) ==
    IF k > Len(w.req) THEN RunOpt(w, a, pyv, 1, Dict(w, a), chkd)
    ELSE LET f == w.req[k]
             r == Check(f.chk, a[f.p], pyv)
             rest == RunReqReportLast(w, a, pyv, k + 1, Evaluated(chkd, f))
         IN  IF r.e # "ok" /\ rest.err.e = "ok"
             THEN [err |-> r, field |-> f.p, cmd |-> <<>>,
                   checked |-> rest.checked]
             ELSE rest

RECURSIVE RunReq(_, _, _, _, _)
RunReq(w, a, pyv, k, chkd) ==
    IF k > Len(w.req) THEN RunOpt(w, a, pyv, 1, Dict(w, a), chkd)
    ELSE LET f == w.req[k]
             r == Check(f.chk, a[f.p], pyv)
         IN  IF r.e # "ok"
             THEN [err |-> r, field |-> f.p, cmd |-> <<>>,
                   checked |-> Evaluated(chkd, f)]
             ELSE RunReq(w, a, pyv, k + 1, Evaluated(chkd, f))

\* the wrapper body up to (not including) the call of run_ceph_command
RunWrapper(w, a, pyv) == RunReq(w, a, pyv, 1, <<>>)

\* every wrapper ends in run_ceph_command(self.rados_config_file, cmd, inbuf='')
InbufOf(g, o) == ""

\* run_ceph_command entered with a handle created without a conffile
EnterWithDefaultConf(conffile, inbuf) ==
    [conffile |-> conffile, inbuf |-> inbuf, handle |-> ""]

\* run_ceph_command(conffile, cmd, inbuf) is entered and creates the handle:
\* cluster = rados.Rados(conffile=conffile)
EnterRunCephCommand(conffile, inbuf) ==
    [conffile |-> conffile, inbuf |-> inbuf, handle |-> conffile]

\* run_ceph_command has not been entered
NoFrame == [conffile |-> "", inbuf |-> "", handle |-> ""]

\* the locator a command-group object is constructed with
ConfFiles == {"/etc/ceph/ceph.conf", "/tmp/test.conf"}

\* the operations that carry a bulk payload
BulkOps == {"auth_import", "osd_setcrushmap"}

\* what a caller has to send along: a keyring or crush map for the bulk
\* operations, nothing for the others
PayloadsOf(o) == IF o \in BulkOps THEN {"", "blob"} ELSE {""}

(***************************************************************************)
(* run_ceph_command                                                        *)
(***************************************************************************)
\* json.dumps of one value: an int is written as an integer literal, a float
\* as a real, None as null
ToJson(v) ==
    [t |-> CASE v.t = "None"  -> "null"
             [] v.t = "int"   -> "integer"
             [] v.t = "float" -> "real"
             [] v.t = "str"   -> "string"
             [] v.t = "list"  -> "array",
     i |-> v.i, s |-> v.s, l |-> v.l]

\* json.dumps(cmd): the members in insertion order
JsonDumps(c) == [k \in 1..Len(c) |-> [k |-> c[k].k, j |-> ToJson(c[k].v)]]

Abs(n) == IF n < 0 THEN -n ELSE n

\* os.strerror
strerror(n) ==
    CASE n = 0 -> "Success"
      [] n = 1 -> "Operation not permitted"
      [] n = 2 -> "No such file or directory"
      [] OTHER -> "Unknown error"

\* IsNot0 treating only negative statuses as failures
IsNegative(status) == status < 0

\* result[0] is not 0 (CPython keeps one object for the int 0)
IsNot0(status) == status # 0

\* ErrMsg without abs()
ErrMsgNoAbs(status) == strerror(status)

\* os.strerror(abs(result[0]))
ErrMsg(status) == strerror(Abs(status))

NoSent    == [got |-> FALSE, json |-> <<>>, inbuf |-> ""]
NoReply   == [got |-> FALSE, status |-> 0, outbuf |-> "", outs |-> ""]
NoRaised  == [at |-> "none", err |-> ""]
NoOutcome == [kind |-> "none", field |-> "", why |-> "", cmd |-> <<>>,
              msg |-> "", outbuf |-> "", outs |-> "", err |-> ""]

\* a validator raised inside the wrapper
ValidationFailure(r) ==
    [NoOutcome EXCEPT !.kind = r.err.e, !.why = r.err.why, !.field = r.field]

\* raise CephError(cmd=cmd, msg=...) or return result[1], result[2]
Interpret(c, r) ==
    IF IsNot0(r.status)
    THEN [NoOutcome EXCEPT !.kind = "CephError", !.cmd = c,
                           !.msg = ErrMsg(r.status)]
    ELSE [NoOutcome EXCEPT !.kind = "return", !.outbuf = r.outbuf,
                           !.outs = r.outs]

\* Reraise wrapping the transport error into a CephError
ReraiseAsCephError(e) == [NoOutcome EXCEPT !.kind = "CephError", !.msg = e]

\* except rados.Error as e: raise e
Reraise(e) == [NoOutcome EXCEPT !.kind = "rados.Error", !.err = e]

\* what the transport can answer
StatusVals    == {-2, -1, 0, 2}
OutBufs       == {"", "data"}
OutStrs       == {"", "ok"}
TransportErrs == {"rados.TimedOut", "rados.PermissionError"}

Callers == DOMAIN pc

(***************************************************************************)
(* Actions                                                                 *)
(***************************************************************************)
\* a caller invokes a wrapper method of one release with some arguments
Call(c) ==
    /\ pc[c] = "idle"
    /\ ncalls < MaxCalls
    /\ \E g \in Gens : \E o \in OpsOf(g) : \E a \in ArgSets(WrapperOf(g, o)) :
          /\ gen' = [gen EXCEPT ![c] = g]
          /\ op' = [op EXCEPT ![c] = o]
          /\ args' = [args EXCEPT ![c] = a]
          /\ \E b \in PayloadsOf(o) : payload' = [payload EXCEPT ![c] = b]
    /\ pc' = [pc EXCEPT ![c] = "called"]
    /\ ncalls' = ncalls + 1
    /\ UNCHANGED <<vvars, rados_config_file, frame, py, cmd, checked, conn, connects, submits, sent, reply,
                   raised, outcome, open, garbage, errlog>>

\* Wrapper that records a validation failure but goes on to run_ceph_command
\* with the command built so far
WrapperContinues(c) ==
    /\ pc[c] = "called"
    /\ LET r == RunWrapper(WrapperOf(gen[c], op[c]), args[c], py)
       IN  /\ cmd' = [cmd EXCEPT ![c] = r.cmd]
           /\ checked' = [checked EXCEPT ![c] = r.checked]
           /\ outcome' = IF r.err.e # "ok"
                         THEN [outcome EXCEPT ![c] = ValidationFailure(r)]
                         ELSE outcome
           /\ pc' = [pc EXCEPT ![c] = "rados"]
           /\ conn' = [conn EXCEPT ![c] = "created"]
           /\ frame' = [frame EXCEPT ![c] =
                  EnterRunCephCommand(rados_config_file,
                                      InbufOf(gen[c], op[c]))]
    /\ UNCHANGED <<vvars, rados_config_file, py, callVars, connects, submits, sent, reply, raised,
                   ncalls, open, garbage, errlog>>

\* Wrapper building cmd in one module-level dict that all calls share
WrapperSharedCmd(c) ==
    /\ pc[c] = "called"
    /\ LET r == RunWrapper(WrapperOf(gen[c], op[c]), args[c], py)
       IN  /\ cmd' = [d \in Callers |-> r.cmd]
           /\ checked' = [checked EXCEPT ![c] = r.checked]
           /\ IF r.err.e # "ok"
              THEN /\ outcome' = [outcome EXCEPT ![c] = ValidationFailure(r)]
                   /\ pc' = [pc EXCEPT ![c] = "done"]
                   /\ conn' = conn
                   /\ frame' = frame
              ELSE /\ outcome' = outcome
                   /\ pc' = [pc EXCEPT ![c] = "rados"]
                   /\ conn' = [conn EXCEPT ![c] = "created"]
                   /\ frame' = [frame EXCEPT ![c] =
                          EnterRunCephCommand(rados_config_file,
                                              InbufOf(gen[c], op[c]))]
    /\ UNCHANGED <<vvars, rados_config_file, py, callVars, connects, submits,
                   sent, reply, raised, ncalls, open, garbage, errlog>>

\* the wrapper body: validate, build cmd, enter run_ceph_command and create
\* the handle (cluster = rados.Rados(conffile=conffile))
Wrapper(c) ==
    /\ pc[c] = "called"
    /\ LET r == RunWrapper(WrapperOf(gen[c], op[c]), args[c], py)
       IN  /\ cmd' = [cmd EXCEPT ![c] = r.cmd]
           /\ checked' = [checked EXCEPT ![c] = r.checked]
           /\ IF r.err.e # "ok"
              THEN /\ outcome' = [outcome EXCEPT ![c] = ValidationFailure(r)]
                   /\ pc' = [pc EXCEPT ![c] = "done"]
                   /\ conn' = conn
                   /\ frame' = frame
              ELSE /\ outcome' = outcome
                   /\ pc' = [pc EXCEPT ![c] = "rados"]
                   /\ conn' = [conn EXCEPT ![c] = "created"]
                   /\ frame' = [frame EXCEPT ![c] =
                          EnterRunCephCommand(rados_config_file,
                                              InbufOf(gen[c], op[c]))]
    /\ UNCHANGED <<vvars, rados_config_file, py, callVars, connects, submits, sent, reply, raised,
                   ncalls, open, garbage, errlog>>

\* Connect that tries again after a failed connect
ConnectRetry(c) ==
    /\ pc[c] = "rados"
    /\ connects[c] < 3
    /\ connects' = [connects EXCEPT ![c] = @ + 1]
    /\ \/ /\ conn' = [conn EXCEPT ![c] = "connected"]
          /\ open' = open + 1
          /\ pc' = [pc EXCEPT ![c] = "connected"]
       \/ UNCHANGED <<conn, open, pc>>
    /\ UNCHANGED <<vvars, rados_config_file, frame, py, callVars, cmd, checked, submits, sent, reply, raised,
                   outcome, ncalls, garbage, errlog>>

\* cluster.connect(): succeeds, or raises a rados.Error
Connect(c) ==
    /\ pc[c] = "rados"
    /\ connects' = [connects EXCEPT ![c] = @ + 1]
    /\ \/ /\ conn' = [conn EXCEPT ![c] = "connected"]
          /\ open' = open + 1
          /\ pc' = [pc EXCEPT ![c] = "connected"]
          /\ UNCHANGED <<raised, outcome>>
       \/ \E e \in TransportErrs :
             /\ raised' = [raised EXCEPT ![c] = [at |-> "connect", err |-> e]]
             /\ outcome' = [outcome EXCEPT ![c] = Reraise(e)]
             /\ pc' = [pc EXCEPT ![c] = "done"]
             /\ UNCHANGED <<conn, open>>
    /\ UNCHANGED <<vvars, rados_config_file, frame, py, callVars, cmd, checked, submits, sent, reply, ncalls,
                   garbage, errlog>>

\* MonCommand submitting on the handle before connect() was called
MonCommandUnconnected(c) ==
    /\ pc[c] \in {"rados", "connected"}
    /\ submits' = [submits EXCEPT ![c] = @ + 1]
    /\ sent' = [sent EXCEPT ![c] = [got |-> TRUE, json |-> JsonDumps(cmd[c]),
                                    inbuf |-> frame[c].inbuf]]
    /\ pc' = [pc EXCEPT ![c] = "submitted"]
    /\ UNCHANGED <<vvars, rados_config_file, frame, py, callVars, cmd, checked,
                   conn, connects, reply, raised, outcome, ncalls, open,
                   garbage, errlog>>

\* cluster.mon_command(json.dumps(cmd), inbuf=inbuf): the command is handed
\* to the transport
MonCommand(c) ==
    /\ pc[c] = "connected"
    /\ submits' = [submits EXCEPT ![c] = @ + 1]
    /\ sent' = [sent EXCEPT ![c] = [got |-> TRUE, json |-> JsonDumps(cmd[c]),
                                    inbuf |-> frame[c].inbuf]]
    /\ pc' = [pc EXCEPT ![c] = "submitted"]
    /\ UNCHANGED <<vvars, rados_config_file, frame, py, callVars, cmd, checked, conn, connects, reply, raised,
                   outcome, ncalls, open, garbage, errlog>>

\* mon_command returns (status, outbuf, outs) and the status is interpreted,
\* or mon_command raises a rados.Error; either way the call ends and its
\* handle, still connected, is no longer referenced
Reply(c) ==
    /\ pc[c] = "submitted"
    /\ \/ \E st \in StatusVals, ob \in OutBufs, os \in OutStrs :
             LET r == [got |-> TRUE, status |-> st, outbuf |-> ob, outs |-> os]
                 out == Interpret(cmd[c], r)
             IN  /\ reply' = [reply EXCEPT ![c] = r]
                 /\ outcome' = [outcome EXCEPT ![c] = out]
                 /\ errlog' = IF out.kind = "CephError"
                              THEN errlog \cup {<<st, out.msg>>}
                              ELSE errlog
                 /\ raised' = raised
       \/ \E e \in TransportErrs :
             /\ raised' = [raised EXCEPT ![c] = [at |-> "mon_command", err |-> e]]
             /\ outcome' = [outcome EXCEPT ![c] = Reraise(e)]
             /\ UNCHANGED <<reply, errlog>>
    /\ pc' = [pc EXCEPT ![c] = "done"]
    /\ garbage' = garbage + 1
    /\ UNCHANGED <<vvars, rados_config_file, frame, py, callVars, cmd, checked, conn, connects, submits, sent,
                   ncalls, open>>

\* the interpreter finalizes an unreferenced handle (Rados.__del__ shuts it
\* down); run_ceph_command itself never calls shutdown()
Finalize ==
    /\ garbage > 0
    /\ garbage' = garbage - 1
    /\ open' = open - 1
    /\ UNCHANGED <<vvars, rados_config_file, frame, py, pc, callVars, cmd, checked, conn, connects, submits,
                   sent, reply, raised, outcome, ncalls, errlog>>

\* the caller has taken the result or the exception of the finished call; the
\* locals of the wrapper and of run_ceph_command are gone
Collect(c) ==
    /\ pc[c] = "done"
    /\ pc' = [pc EXCEPT ![c] = "idle"]
    /\ gen' = [gen EXCEPT ![c] = "none"]
    /\ op' = [op EXCEPT ![c] = "none"]
    /\ args' = [args EXCEPT ![c] = <<>>]
    /\ payload' = [payload EXCEPT ![c] = ""]
    /\ frame' = [frame EXCEPT ![c] = NoFrame]
    /\ cmd' = [cmd EXCEPT ![c] = <<>>]
    /\ checked' = [checked EXCEPT ![c] = <<>>]
    /\ conn' = [conn EXCEPT ![c] = "none"]
    /\ connects' = [connects EXCEPT ![c] = 0]
    /\ submits' = [submits EXCEPT ![c] = 0]
    /\ sent' = [sent EXCEPT ![c] = NoSent]
    /\ reply' = [reply EXCEPT ![c] = NoReply]
    /\ raised' = [raised EXCEPT ![c] = NoRaised]
    /\ outcome' = [outcome EXCEPT ![c] = NoOutcome]
    /\ UNCHANGED <<vvars, rados_config_file, py, ncalls, open, garbage, errlog>>

InitCaller(cs) ==
    /\ pc = [c \in cs |-> "idle"]
    /\ gen = [c \in cs |-> "none"]
    /\ op = [c \in cs |-> "none"]
    /\ args = [c \in cs |-> <<>>]
    /\ payload = [c \in cs |-> ""]
    /\ frame = [c \in cs |-> NoFrame]
    /\ cmd = [c \in cs |-> <<>>]
    /\ checked = [c \in cs |-> <<>>]
    /\ conn = [c \in cs |-> "none"]
    /\ connects = [c \in cs |-> 0]
    /\ submits = [c \in cs |-> 0]
    /\ sent = [c \in cs |-> NoSent]
    /\ reply = [c \in cs |-> NoReply]
    /\ raised = [c \in cs |-> NoRaised]
    /\ outcome = [c \in cs |-> NoOutcome]

PyVersions == {2, 3}

\* no direct validator call is being made
NoVCall == [value |-> PyNone, ty |-> "", rng |-> RangeNone]

Init ==
    /\ py \in PyVersions
    /\ InitCaller({1})
    /\ ncalls = 0
    /\ open = 0
    /\ garbage = 0
    /\ errlog = {}
    /\ vcall = NoVCall
    /\ vres = <<>>
    /\ rados_config_file \in ConfFiles

Next ==
    \/ \E c \in Callers : Call(c)
    \/ \E c \in Callers : Wrapper(c)
    \/ \E c \in Callers : Connect(c)
    \/ \E c \in Callers : MonCommand(c)
    \/ \E c \in Callers : Reply(c)
    \/ \E c \in Callers : Collect(c)
    \/ Finalize

Spec == Init /\ [][Next]_vars

(***************************************************************************)
(* Two threads, each calling one wrapper method: the steps of the two      *)
(* calls interleave in every order.                                        *)
(***************************************************************************)
Threads == {1, 2}

\* the wrapper methods the two threads call
ConcurrentOps == {<<"hammer", "pg_ls_by_primary">>,
                  <<"infernalis", "mds_rmfailed">>}

CallConcurrent(c) ==
    /\ pc[c] = "idle"
    /\ ncalls < MaxCalls
    /\ \E m \in ConcurrentOps : \E a \in ArgSets(WrapperOf(m[1], m[2])) :
          /\ gen' = [gen EXCEPT ![c] = m[1]]
          /\ op' = [op EXCEPT ![c] = m[2]]
          /\ args' = [args EXCEPT ![c] = a]
          /\ \E b \in PayloadsOf(m[2]) : payload' = [payload EXCEPT ![c] = b]
    /\ pc' = [pc EXCEPT ![c] = "called"]
    /\ ncalls' = ncalls + 1
    /\ UNCHANGED <<vvars, rados_config_file, frame, py, cmd, checked, conn,
                   connects, submits, sent, reply, raised, outcome, open,
                   garbage, errlog>>

InitC ==
    /\ py \in PyVersions
    /\ InitCaller(Threads)
    /\ ncalls = 0
    /\ open = 0
    /\ garbage = 0
    /\ errlog = {}
    /\ vcall = NoVCall
    /\ vres = <<>>
    /\ rados_config_file \in ConfFiles

NextC ==
    \/ \E c \in Callers : CallConcurrent(c)
    \/ \E c \in Callers : Wrapper(c)
    \/ \E c \in Callers : Connect(c)
    \/ \E c \in Callers : MonCommand(c)
    \/ \E c \in Callers : Reply(c)
    \/ Finalize

SpecC == InitC /\ [][NextC]_vars

(***************************************************************************)
(* validator.validator called directly: the arguments are fixed at the     *)
(* start and the function is applied to them, MaxValidations times at most.*)
(***************************************************************************)
VValues ==
    {PyInt(n) : n \in -1..6} \cup
    {PyFloat(25), PyStr("add"), PyStr("rm"), PyStr("typo"), PyList(<<"add">>),
     PyList(<<"pause">>), PyList(<<>>)}

\* valid_type: int, float, six.string_types, list
VTypes == {"int", "float", "str", "list"}

VRanges ==
    {RangeNone, RangeOther} \cup
    {RangeList(<<PyInt(a), PyInt(b)>>) : a, b \in {0, 2, 5}} \cup
    {RangeList(<<>>), RangeList(<<PyInt(0)>>),
     RangeList(<<PyInt(0), PyInt(2), PyInt(5)>>),
     RangeList(Strs(<<"add", "rm">>)), RangeList(Strs(<<"add", "rm", "x">>)),
     RangeList(OsdFlagsFirefly)}

VInputs == [value : VValues, ty : VTypes, rng : VRanges]

InitV ==
    /\ py \in PyVersions
    /\ InitCaller({1})
    /\ ncalls = 0
    /\ open = 0
    /\ garbage = 0
    /\ errlog = {}
    /\ vcall \in VInputs
    /\ vres = <<>>
    /\ rados_config_file \in ConfFiles

\* Validate with a validator that consumes valid_range (leaves None behind)
ValidateConsuming ==
    /\ Len(vres) < MaxValidations
    /\ vres' = Append(vres, validator(vcall.value, vcall.ty, vcall.rng, py))
    /\ vcall' = [vcall EXCEPT !.rng = RangeNone]
    /\ UNCHANGED <<rados_config_file, frame, py, pc, callVars, cmd, checked,
                   conn, connects, submits, sent, reply, raised, outcome,
                   ncalls, open, garbage, errlog>>

\* validator(value, valid_type, valid_range)
Validate ==
    /\ Len(vres) < MaxValidations
    /\ vres' = Append(vres, validator(vcall.value, vcall.ty, vcall.rng, py))
    /\ UNCHANGED <<vcall, rados_config_file, frame, py, pc, callVars, cmd, checked, conn, connects,
                   submits, sent, reply, raised, outcome, ncalls, open,
                   garbage, errlog>>

NextV == Validate

SpecV == InitV /\ [][NextV]_vars

(***************************************************************************)
(* Properties                                                              *)
(***************************************************************************)
WrapperAt(c) == WrapperOf(gen[c], op[c])

SuppliedOpt(c) == {p \in OptKeys(WrapperAt(c)) : args[c][p] # PyNone}

\* C1: once mon_command has replied (status, outbuf, outs), the call returns
\* exactly (outbuf, outs) iff status = 0 and raises CephError iff status is
\* nonzero, whatever its sign.
C1_StatusDecidesOutcome ==
    \A c \in Callers :
        (pc[c] = "done" /\ reply[c].got) =>
            /\ (outcome[c].kind = "return") <=> (reply[c].status = 0)
            /\ (outcome[c].kind = "CephError") <=> (reply[c].status # 0)
            /\ outcome[c].kind = "return" =>
                  /\ outcome[c].outbuf = reply[c].outbuf
                  /\ outcome[c].outs = reply[c].outs

\* a positive status was answered and the call raised CephError
C1_Witness ==
    \E c \in Callers :
        /\ pc[c] = "done" /\ reply[c].got /\ reply[c].status > 0
        /\ outcome[c].kind = "CephError"

\* C2: a call that ends in a validation failure has created no connection,
\* made no connect attempt and submitted nothing, also when earlier fields
\* were already validated and stored in the command.
C2_ValidationBeforeNetwork ==
    \A c \in Callers :
        outcome[c].kind \in ValidationKinds =>
            /\ pc[c] = "done"
            /\ conn[c] = "none"
            /\ connects[c] = 0
            /\ submits[c] = 0
            /\ ~sent[c].got

\* an optional field failed after others were validated and stored
C2_Witness ==
    \E c \in Callers :
        /\ outcome[c].kind \in ValidationKinds
        /\ outcome[c].field \in OptKeys(WrapperAt(c))
        /\ Len(cmd[c]) > 1
        /\ Len(checked[c]) > 1

\* C3: a CephError carries the command the wrapper built from the arguments,
\* and its msg depends only on the absolute value of the status: s and -s
\* give the same msg, and -2 gives the message of errno 2.
C3_CephErrorCarriesCmdAndMsg ==
    /\ \A c \in Callers :
          outcome[c].kind = "CephError" =>
              /\ outcome[c].cmd = cmd[c]
              /\ outcome[c].cmd = RunWrapper(WrapperAt(c), args[c], py).cmd
              /\ <<reply[c].status, outcome[c].msg>> \in errlog
    /\ \A e \in errlog :
          /\ \A f \in errlog : Abs(e[1]) = Abs(f[1]) => e[2] = f[2]
          /\ e[1] = -2 => e[2] = strerror(2)

\* CephError has been raised both for status 2 and for status -2
C3_Witness ==
    /\ \E c \in Callers : outcome[c].kind = "CephError"
    /\ \E e, f \in errlog : e[1] = 2 /\ f[1] = -2

\* C4: a rados.Error raised by connect or by mon_command reaches the caller
\* as that same error, not as CephError, a validation error or a result;
\* after a failed connect nothing was submitted.
C4_TransportErrorPropagates ==
    \A c \in Callers :
        raised[c].at # "none" =>
            /\ pc[c] = "done"
            /\ outcome[c] = [NoOutcome EXCEPT !.kind = "rados.Error",
                                              !.err = raised[c].err]
            /\ outcome[c].kind \notin ValidationKinds \cup {"CephError", "return"}
            /\ raised[c].at = "connect" => (submits[c] = 0 /\ ~sent[c].got)

\* connect raised and the call ended with that error
C4_Witness ==
    \E c \in Callers :
        /\ raised[c].at = "connect"
        /\ outcome[c].kind = "rados.Error"
        /\ outcome[c].err = raised[c].err

\* C5: a call makes at most one connect attempt and at most one submission;
\* a failed connect, a failed mon_command or a nonzero status ends the call
\* without a further attempt.
C5_SingleShot ==
    \A c \in Callers :
        /\ connects[c] <= 1
        /\ submits[c] <= 1
        /\ raised[c].at = "connect" => (connects[c] = 1 /\ submits[c] = 0)
        /\ (raised[c].at = "mon_command" \/ reply[c].got) =>
              (connects[c] = 1 /\ submits[c] = 1 /\ pc[c] = "done")

\* a call ended on a nonzero status after one connect and one submission
C5_Witness ==
    \E c \in Callers :
        /\ reply[c].got /\ reply[c].status # 0
        /\ pc[c] = "done" /\ connects[c] = 1 /\ submits[c] = 1

\* C6: no connection opened by a call is still open once that call has ended.
C6_ConnectionClosedAtEnd == garbage = 0

\* C7: the submitted command has a member for an optional field iff the
\* caller supplied a value other than None for it, and then the member holds
\* exactly that value; an omitted field is not sent as null.
C7_OptionalIffSupplied ==
    \A c \in Callers :
        sent[c].got =>
            \A p \in OptKeys(WrapperAt(c)) :
                LET j == sent[c].json
                    hits == {k \in 1..Len(j) : j[k].k = p}
                IN  /\ (hits # {}) <=> (args[c][p] # PyNone)
                    /\ Cardinality(hits) <= 1
                    /\ \A k \in hits : /\ j[k].j = ToJson(args[c][p])
                                       /\ j[k].j.t # "null"

\* a command was submitted with one optional field supplied and one omitted
C7_Witness ==
    \E c \in Callers :
        /\ sent[c].got
        /\ \E p, q \in OptKeys(WrapperAt(c)) :
              args[c][p] = PyNone /\ args[c][q] # PyNone

\* C8: the command handed to the transport is the wrapper's prefix plus one
\* entry per required field and per supplied optional field, each holding
\* the value the caller passed, unaltered.
C8_CommandIsPrefixPlusArgs ==
    \A c \in Callers :
        sent[c].got =>
            LET w == WrapperAt(c)
                d == cmd[c]
                fields == ReqKeys(w) \cup SuppliedOpt(c)
            IN  /\ d[1] = Entry("prefix", PyStr(w.prefix))
                /\ {d[k].k : k \in 2..Len(d)} = fields
                /\ Len(d) = 1 + Cardinality(fields)
                /\ \A k \in 2..Len(d) : d[k].v = args[c][d[k].k]
                /\ sent[c].json = JsonDumps(d)

\* hammer osd_reweight was submitted after both of its validators accepted
C8_Witness ==
    \E c \in Callers :
        /\ sent[c].got
        /\ gen[c] = "hammer" /\ op[c] = "osd_reweight"
        /\ Len(checked[c]) = 2

\* C9: every field of a submitted command has been checked by a validator
\* earlier in the same call.
C9_EveryFieldValidated ==
    \A c \in Callers :
        sent[c].got =>
            \A k \in 2..Len(cmd[c]) : cmd[c][k].k \in Range(checked[c])

\* C10: in every release osd_reweight with an int id >= 0 and a float weight
\* in [0, 1] passes validation and submits prefix, id and weight.
C10_ReweightAccepted ==
    \A c \in Callers :
        ( /\ op[c] = "osd_reweight"
          /\ pc[c] \notin {"idle", "called"}
          /\ args[c]["id"].t = "int" /\ args[c]["id"].i >= 0
          /\ args[c]["weight"].t = "float"
          /\ args[c]["weight"].i >= 0 /\ args[c]["weight"].i <= 10 ) =>
            /\ outcome[c].kind \notin ValidationKinds
            /\ sent[c].got =>
                  Range(sent[c].json) =
                      {[k |-> "prefix", j |-> ToJson(PyStr("osd reweight"))],
                       [k |-> "id", j |-> ToJson(args[c]["id"])],
                       [k |-> "weight", j |-> ToJson(args[c]["weight"])]}

\* the call of caller c has left the wrapper body (validation is over)
Validated(c) == pc[c] \notin {"idle", "called"}

\* C11: in every release osd_reweight with a numeric weight outside [0, 1]
\* ends in a validation error and submits nothing.
C11_ReweightOutOfRangeRejected ==
    \A c \in Callers :
        ( /\ op[c] = "osd_reweight"
          /\ Validated(c)
          /\ IsNum(args[c]["weight"])
          /\ (Num(args[c]["weight"]) < 0 \/ Num(args[c]["weight"]) > 10) ) =>
            /\ outcome[c].kind \in ValidationKinds
            /\ ~sent[c].got

\* the check a wrapper declares for parameter p
FieldsOf(w)    == w.req \o w.opt
ChkOf(w, p)    == (CHOOSE f \in Range(FieldsOf(w)) : f.p = p).chk
Validates(w, p) == \E f \in Range(FieldsOf(w)) : f.p = p

\* the literal strings a choice parameter allows in the release called
Allowed(c, p) == {x.s : x \in Range(ChkOf(WrapperAt(c), p).rng)}

\* validation of parameter p was reached and failed / was reached and passed
Rejected(c, p) == outcome[c].kind \in ValidationKinds /\ outcome[c].field = p
Passed(c, p) ==
    /\ Validated(c)
    /\ \E k \in 1..Len(checked[c]) : checked[c][k] = p
    /\ ~Rejected(c, p)

\* the value carries exactly one string, and that string is allowed
OneAllowed(v, allowed) ==
    \/ v.t = "str" /\ v.s \in allowed
    \/ v.t = "list" /\ Len(v.l) = 1 /\ v.l[1] \in allowed

\* C12: in every release osd_set called with exactly one allowed literal
\* string as key passes validation and the command built is
\* {prefix: 'osd set', key: <that value>}.
C12_OsdSetOneAllowedPasses ==
    \A c \in Callers :
        ( /\ op[c] = "osd_set"
          /\ Validated(c)
          /\ OneAllowed(args[c]["key"], Allowed(c, "key")) ) =>
            /\ outcome[c].kind \notin ValidationKinds
            /\ cmd[c] = <<Entry("prefix", PyStr("osd set")),
                          Entry("key", args[c]["key"])>>

\* the value names something outside the allowed set: a string that is not
\* allowed, or a list with an element that is not allowed
NotAllowed(v, allowed) ==
    \/ v.t = "str" /\ v.s \notin allowed
    \/ v.t = "list" /\ \E k \in 1..Len(v.l) : v.l[k] \notin allowed

\* C13: in every release osd_set called with a key that is not in the
\* release's allowed flag set ends in a validation error and submits nothing.
C13_OsdSetNotAllowedRejected ==
    \A c \in Callers :
        ( /\ op[c] = "osd_set"
          /\ Validated(c)
          /\ NotAllowed(args[c]["key"], Allowed(c, "key")) ) =>
            /\ outcome[c].kind \in ValidationKinds
            /\ ~sent[c].got

\* the choice parameters of arity one among the wrappers modelled
ArityOne == {<<"osd_set", "key">>, <<"quorum", "quorumcmd">>,
             <<"heap", "heapcmd">>}

\* the number of strings a value carries
Carried(v) == IF v.t = "list" THEN Len(v.l) ELSE IF v.s = "" THEN 0 ELSE 1

\* C14: a choice parameter of arity one rejects, before anything is
\* submitted, a value carrying zero strings (empty list, empty string) and a
\* value carrying more than one string.
C14_ArityOneEnforced ==
    \A c \in Callers : \A f \in ArityOne :
        ( /\ op[c] = f[1]
          /\ Validated(c)
          /\ args[c][f[2]].t \in {"list", "str"}
          /\ Carried(args[c][f[2]]) # 1 ) =>
            /\ Rejected(c, f[2])
            /\ ~sent[c].got

\* the choice parameters of arity many among the wrappers modelled
ArityMany == {<<"pg_dump", "dumpcontents">>, <<"pg_dump_stuck", "stuckops">>}

\* C15: a choice parameter of arity many, in every release: a supplied
\* sequence passes validation iff it is non-empty and each of its elements
\* is allowed.
C15_ArityManyIffAllAllowed ==
    \A c \in Callers : \A f \in ArityMany :
        ( /\ op[c] = f[1]
          /\ Validated(c)
          /\ args[c][f[2]].t = "list"
          /\ Passed(c, f[2]) \/ Rejected(c, f[2]) ) =>
            ( Passed(c, f[2]) <=>
                /\ Len(args[c][f[2]].l) > 0
                /\ \A k \in 1..Len(args[c][f[2]].l) :
                      args[c][f[2]].l[k] \in Allowed(c, f[2]) )

\* a direct call validator(value, int, [min, max]) with integer value and bounds
IntRangeCall ==
    /\ vcall.ty = "int" /\ vcall.value.t = "int"
    /\ vcall.rng.t = "list" /\ Len(vcall.rng.e) = 2
    /\ vcall.rng.e[1].t = "int" /\ vcall.rng.e[2].t = "int"

LessThanMinimum    == Fail("AssertionError", "min")
GreaterThanMaximum == Fail("AssertionError", "max")

IntMin0 == {<<"mds_rmfailed", "who">>, <<"mds_set_max_mds", "maxmds">>,
            <<"osd_thrash", "num_epochs">>}

\* C17: in hammer and infernalis a parameter declared 'int min=0' rejects
\* every negative integer before submission and accepts every integer >= 0.
C17_IntMin0 ==
    \A c \in Callers : \A f \in IntMin0 :
        ( /\ gen[c] \in {"hammer", "infernalis"}
          /\ op[c] = f[1]
          /\ Validated(c)
          /\ args[c][f[2]].t = "int" ) =>
            /\ args[c][f[2]].i < 0 => (Rejected(c, f[2]) /\ ~sent[c].got)
            /\ args[c][f[2]].i >= 0 => Passed(c, f[2])

\* positions in the signature of the supplied arguments that the wrapper's
\* own validation statement refuses
Invalid(c) ==
    LET w == WrapperAt(c)
        sig == Signature(gen[c], op[c])
    IN  {k \in 1..Len(sig) :
            /\ Validates(w, sig[k])
            /\ Supplied(args[c][sig[k]])
            /\ Check(ChkOf(w, sig[k]), args[c][sig[k]], py).e # "ok"}

FirstOf(ks) == CHOOSE k \in ks : \A j \in ks : k <= j

\* C18: when two or more supplied arguments of a call are invalid, the error
\* raised is the one of the invalid argument that comes first in the
\* wrapper's parameter order, and no validator of a later parameter has been
\* evaluated.
C18_FirstInvalidReported ==
    \A c \in Callers :
        (Validated(c) /\ Cardinality(Invalid(c)) >= 2) =>
            LET sig == Signature(gen[c], op[c])
                first == FirstOf(Invalid(c))
            IN  /\ outcome[c].kind \in ValidationKinds
                /\ outcome[c].field = sig[first]
                /\ \A k \in 1..Len(sig) :
                      k > first => sig[k] \notin Range(checked[c])
                /\ ~sent[c].got

\* hammer mds_set_state was called with state and gid both out of range and
\* the error is that of state
C18_Witness ==
    \E c \in Callers :
        /\ gen[c] = "hammer" /\ op[c] = "mds_set_state"
        /\ Validated(c)
        /\ Cardinality(Invalid(c)) = 2
        /\ outcome[c].field = "state"
        /\ checked[c] = <<"state">>

\* every character of the string is in the class
InClass(x, good) == \A k \in 1..Len(Chars(x)) : Chars(x)[k] \in good

\* C19: name of osd_crush_add_bucket, declared [A-Za-z0-9-_.] in hammer and
\* infernalis: a string with a character outside the class is rejected
\* before submission, a string of in-class characters is accepted.
C19_CharClassEnforced ==
    \A c \in Callers :
        ( /\ gen[c] \in {"hammer", "infernalis"}
          /\ op[c] = "osd_crush_add_bucket"
          /\ Validated(c)
          /\ args[c]["name"].t = "str" ) =>
            /\ ~InClass(args[c]["name"].s, GoodChars) =>
                  (outcome[c].kind \in ValidationKinds /\ ~sent[c].got)
            /\ InClass(args[c]["name"].s, GoodChars) => ~Rejected(c, "name")

\* a canonical UUID, as a string or as a uuid.UUID object
CanonicalUUID(v) == (v.t = "str" /\ IsUUID(v.s)) \/ v.t = "UUID"

\* C20: in every release osd_create with a canonical UUID passes validation
\* and the command holds it as 'uuid'; a uuid argument that is not a UUID
\* ends in a validation error with nothing submitted; with uuid omitted (and
\* no other argument) the command is just {prefix: 'osd create'}.
C20_OsdCreateUuid ==
    \A c \in Callers :
        (op[c] = "osd_create" /\ Validated(c)) =>
            LET u == args[c]["uuid"]
            IN  /\ CanonicalUUID(u) =>
                      /\ Passed(c, "uuid")
                      /\ \E k \in 1..Len(cmd[c]) : cmd[c][k] = Entry("uuid", u)
                /\ (Supplied(u) /\ ~CanonicalUUID(u)) =>
                      (outcome[c].kind \in ValidationKinds /\ ~sent[c].got)
                /\ (SuppliedOpt(c) = {}) =>
                      cmd[c] = <<Entry("prefix", PyStr("osd create"))>>

\* C21: a bulk operation (auth_import, osd_setcrushmap) submits its command
\* with the caller's payload as inbuf, every other operation submits with an
\* empty inbuf, and the transport receives the inbuf run_ceph_command was
\* entered with.
C21_InbufCarriesPayload ==
    \A c \in Callers :
        sent[c].got =>
            /\ sent[c].inbuf = frame[c].inbuf
            /\ op[c] \in BulkOps => sent[c].inbuf = payload[c]
            /\ op[c] \notin BulkOps => sent[c].inbuf = ""

\* how a call ends when it runs alone: decided by its own arguments, the
\* error its own transport raised and the reply its own transport gave
AloneOutcome(g, o, a, pyv, rsd, rpl) ==
    LET r == RunWrapper(WrapperOf(g, o), a, pyv)
    IN  IF r.err.e # "ok" THEN ValidationFailure(r)
        ELSE IF rsd.at # "none" THEN Reraise(rsd.err)
        ELSE Interpret(r.cmd, rpl)

\* calls that hold a connected handle
Holding == {c \in Callers : pc[c] \in {"connected", "submitted"}}

\* C22: two calls running concurrently share no mutable state: under every
\* interleaving each call has the command built from its own arguments,
\* submits that command, holds a connection of its own, and ends as it
\* would have ended running alone.
C22_ConcurrentCallsIndependent ==
    /\ \A c \in Callers :
          LET r == RunWrapper(WrapperAt(c), args[c], py)
          IN  /\ Validated(c) => cmd[c] = r.cmd
              /\ sent[c].got => sent[c].json = JsonDumps(r.cmd)
              /\ pc[c] = "done" =>
                    outcome[c] = AloneOutcome(gen[c], op[c], args[c], py,
                                              raised[c], reply[c])
              /\ connects[c] <= 1
    /\ open = Cardinality(Holding) + garbage

\* both threads are inside run_ceph_command at once with different commands,
\* one already answered with an error status
C22_Witness ==
    /\ pc[1] = "done" /\ outcome[1].kind = "CephError"
    /\ pc[2] = "submitted"
    /\ cmd[1] # cmd[2]
    /\ sent[2].got

C24_ConfFilePassedUnchanged ==
    /\ [](\A c \in Callers :
             conn[c] # "none" =>
                 /\ frame[c].conffile = rados_config_file
                 /\ frame[c].handle = rados_config_file)
    /\ [][rados_config_file' = rados_config_file]_vars

\* a second call on the object is connected after an earlier call ended in
\* CephError
C24_Witness ==
    \E c \in Callers :
        /\ ncalls = 2
        /\ errlog # {}
        /\ pc[c] = "connected"
        /\ frame[c].handle = rados_config_file
        /\ rados_config_file = "/tmp/test.conf"

\* the wrapper methods of a release that submit the given prefix
MethodsWithPrefix(g, x) == {o \in OpsOf(g) : WrapperOf(g, o).prefix = x}

\* C25: within a release the prefix of a submitted command identifies the
\* wrapper method that submitted it: no other method of that release has
\* the same prefix.
C25_PrefixIdentifiesMethod ==
    \A c \in Callers :
        sent[c].got =>
            MethodsWithPrefix(gen[c], cmd[c][1].v.s) = {op[c]}

\* C26: validator called with a valid_type other than six.string_types and
\* a valid_range list of length other than 2 raises ValueError for every
\* value that passes the type check; so the list-typed choice check of
\* osd_set, validator(key, list, <the ten flags>), succeeds for no value.
C26_LengthNot2IsValueError ==
    \A k \in 1..Len(vres) :
        /\ ( /\ vcall.ty # "str"
             /\ vcall.rng.t = "list"
             /\ Len(vcall.rng.e) # 2
             /\ IsInstance(vcall.value, vcall.ty) ) =>
                vres[k] = Fail("ValueError", "length")
        /\ (vcall.ty = "list" /\ vcall.rng = RangeList(OsdFlagsFirefly)) =>
                vres[k] # Ok

\* ['pause'] was checked against the ten osd_set flags and raised ValueError
C26_Witness ==
    /\ vcall = [value |-> PyList(<<"pause">>), ty |-> "list",
                rng |-> RangeList(OsdFlagsFirefly)]
    /\ Len(vres) > 0
    /\ vres[1].e = "ValueError"

\* C27: in run_ceph_command the steps happen in one order: the handle is
\* created, then connect is called, mon_command is called only after connect
\* succeeded, the status is interpreted only after mon_command returned, and
\* the command is submitted at most once.
C27_StepOrder ==
    \A c \in Callers :
        /\ connects[c] > 0 => conn[c] # "none"
        /\ conn[c] = "connected" => (connects[c] = 1 /\ raised[c].at # "connect")
        /\ sent[c].got => (conn[c] = "connected" /\ submits[c] = 1)
        /\ submits[c] > 0 => sent[c].got
        /\ reply[c].got => (sent[c].got /\ raised[c].at = "none")
        /\ outcome[c].kind \in {"return", "CephError"} => reply[c].got
        /\ submits[c] <= 1

\* a call went through create, connect, mon_command and returned the reply
C27_Witness ==
    \E c \in Callers :
        /\ outcome[c].kind = "return"
        /\ conn[c] = "connected" /\ connects[c] = 1 /\ submits[c] = 1
        /\ sent[c].got /\ reply[c].got

\* a direct call validator(value, six.string_types, valid_range)
StringCall == vcall.ty = "str"

\* C28: validator(value, six.string_types, L) succeeds iff value is a string
\* and an element of the list L; with valid_range=None validator succeeds
\* iff value is an instance of valid_type.
C28_StringMembership ==
    \A k \in 1..Len(vres) :
        /\ (StringCall /\ vcall.rng.t = "list") =>
              ( (vres[k] = Ok) <=>
                    /\ vcall.value.t = "str"
                    /\ \E j \in 1..Len(vcall.rng.e) :
                          vcall.rng.e[j] = vcall.value )
        /\ vcall.rng.t = "None" =>
              ( (vres[k] = Ok) <=> IsInstance(vcall.value, vcall.ty) )

\* a string that is the second element of the list was accepted
C28_Witness ==
    /\ StringCall
    /\ vcall.rng.t = "list" /\ Len(vcall.rng.e) >= 2
    /\ vcall.rng.e[2] = vcall.value
    /\ Len(vres) > 0 /\ vres[1] = Ok

\* both bounds of the range are integers
IntBounds ==
    /\ vcall.rng.t = "list" /\ Len(vcall.rng.e) = 2
    /\ vcall.rng.e[1].t = "int" /\ vcall.rng.e[2].t = "int"

\* C29: validator checks in a fixed order and reports the first failure:
\* the type of value, then that valid_range is a list, then (non-string
\* types) that it has length 2, then the minimum, then the maximum.  A value
\* of the wrong type is a type failure even with a malformed valid_range; a
\* value below the first bound and above the second is below the minimum.
C29_CheckOrder ==
    \A k \in 1..Len(vres) :
        LET isinst == IsInstance(vcall.value, vcall.ty)
            r == vcall.rng
        IN  /\ ~isinst => vres[k] = Fail("AssertionError", "type")
            /\ (isinst /\ r.t = "other") =>
                  vres[k] = Fail("AssertionError", "range-not-list")
            /\ (isinst /\ r.t = "list" /\ vcall.ty # "str" /\ Len(r.e) # 2) =>
                  vres[k] = Fail("ValueError", "length")
            /\ (isinst /\ IntBounds /\ vcall.ty = "int") =>
                  /\ vcall.value.i < r.e[1].i => vres[k] = LessThanMinimum
                  /\ (vcall.value.i >= r.e[1].i /\ vcall.value.i > r.e[2].i) =>
                        vres[k] = GreaterThanMaximum

\* a value below the first bound and above the second failed on the minimum
C29_Witness ==
    /\ vcall.ty = "int" /\ vcall.value.t = "int" /\ IntBounds
    /\ vcall.value.i < vcall.rng.e[1].i
    /\ vcall.value.i > vcall.rng.e[2].i
    /\ Len(vres) > 0 /\ vres[1] = LessThanMinimum

====
